---------------------------- MODULE Spec2Model ----------------------------
(***************************************************************************)
(* A model of profanity's window abstraction (src/ui/window.c) and of its  *)
(* tray notifier (src/tray.c).                                             *)
(*                                                                         *)
(* Strings are sequences of one-character strings; a char* that may be     *)
(* NULL is a record [null, s].  An ncurses pad is PadSize rows of cells    *)
(* [ch, at] with a cursor row; every handler of window.c is written as the *)
(* sequence of curses calls it makes (wattron / wprintw / wattroff), and   *)
(* the calls are then applied to the pad.  Lines are assumed to fit the    *)
(* pad's width, so no line wraps.                                          *)
(***************************************************************************)
EXTENDS Integers, Sequences, FiniteSets, TLC

VARIABLES win, last, tz, tray, env, tlast

vars == <<win, last, tz, tray, env, tlast>>
winvars == <<win, last, tz>>
trayvars == <<tray, env, tlast>>

(***************************************************************************)
(* Bounds of the model.                                                    *)
(***************************************************************************)
\* rows of a pad (PAD_SIZE of ui/window.h)
PadSize == 2
\* model ticks per second (glib's G_TIME_SPAN_SECOND is 1000000 microseconds)
G_TIME_SPAN_SECOND == 2

G_TIME_SPAN_MINUTE == 60 * G_TIME_SPAN_SECOND
G_TIME_SPAN_HOUR == 60 * G_TIME_SPAN_MINUTE
SecondsPerDay == 24 * 60 * 60

(***************************************************************************)
(* Strings                                                                 *)
(***************************************************************************)
NULL == [null |-> TRUE, s |-> <<>>]
Str(s) == [null |-> FALSE, s |-> s]

S_online == <<"o", "n", "l", "i", "n", "e">>
S_away == <<"a", "w", "a", "y">>
S_chat == <<"c", "h", "a", "t">>
S_dnd == <<"d", "n", "d">>
S_xa == <<"x", "a">>
S_offline == <<"o", "f", "f", "l", "i", "n", "e">>
S_bogus == <<"?">>
S_me == <<"/", "m", "e", " ">>

\* g_strcmp0(a, "literal") == 0: NULL compares unequal to every literal
G_StrCmp0Eq(p, lit) == ~p.null /\ p.s = lit

\* the i-th char of a C string: the terminating NUL follows the last character
NUL == "\\0"
CharAt(a, i) == IF i <= Len(a) THEN a[i] ELSE NUL
Min(a, b) == IF a <= b THEN a ELSE b

\* strncmp(a, b, n) == 0: the strings agree on their first n characters, or up
\* to and including the NUL that ends the shorter one
StrNCmpEq(a, b, n) ==
    \A i \in 1..Min(n, Min(Len(a), Len(b)) + 1) : CharAt(a, i) = CharAt(b, i)

Digits == <<"0", "1", "2", "3", "4", "5", "6", "7", "8", "9">>

\* printf's %d
RECURSIVE Itoa(_)
Itoa(n) == IF n < 0 THEN <<"-">> \o Itoa(0 - n)
           ELSE IF n < 10 THEN <<Digits[n + 1]>>
           ELSE Itoa(n \div 10) \o <<Digits[(n % 10) + 1]>>

\* C's integer division, which truncates towards zero
CDiv(a, b) == IF a >= 0 THEN a \div b ELSE 0 - ((0 - a) \div b)

\* strftime's two-digit field
TwoDigits(n) == <<Digits[(n \div 10) + 1], Digits[(n % 10) + 1]>>

(***************************************************************************)
(* glib date and time.  A GDateTime is an instant (ticks since the epoch)  *)
(* with the UTC offset, in seconds, of its time zone.                      *)
(***************************************************************************)
G_date_time_new_now_local(now) == [t |-> now, off |-> tz]
G_date_time_new_from_timeval_utc(tv) == [t |-> tv, off |-> 0]
G_date_time_difference(end, begin) == end.t - begin.t

\* g_date_time_format(dt, "%H:%M:%S"): the wall clock of dt in dt's zone
G_date_time_format(dt) ==
    LET sod == ((dt.t \div G_TIME_SPAN_SECOND) + dt.off) % SecondsPerDay
    IN  TwoDigits(sod \div 3600) \o <<":">> \o TwoDigits((sod % 3600) \div 60)
          \o <<":">> \o TwoDigits(sod % 60)

(***************************************************************************)
(* curses calls and the pad                                                *)
(***************************************************************************)
AttrOn(a) == [f |-> "wattron", a |-> a, s |-> <<>>]
AttrOff(a) == [f |-> "wattroff", a |-> a, s |-> <<>>]
Printw(s) == [f |-> "wprintw", a |-> {}, s |-> s]

NL == "\n"

EmptyPad == [rows |-> [i \in 1..PadSize |-> <<>>], cy |-> 1]

\* waddch: a newline moves to the next row, scrolling the pad up one row at
\* the bottom (scrollok is TRUE); any other character is stored at the cursor
PadAddCh(pad, cell) ==
    IF cell.ch = NL
    THEN IF pad.cy = PadSize
         THEN [pad EXCEPT !.rows = Tail(pad.rows) \o << <<>> >>]
         ELSE [pad EXCEPT !.cy = @ + 1]
    ELSE [pad EXCEPT !.rows[pad.cy] = Append(@, cell)]

RECURSIVE PadPut(_, _)
PadPut(pad, cells) ==
    IF cells = <<>> THEN pad
    ELSE PadPut(PadAddCh(pad, Head(cells)), Tail(cells))

Cells(s, at) == [i \in 1..Len(s) |-> [ch |-> s[i], at |-> at]]

\* one curses call applied to a WINDOW [pad, attrs]
Curses(w, c) ==
    CASE c.f = "wattron" -> [w EXCEPT !.attrs = @ \cup c.a]
      [] c.f = "wattroff" -> [w EXCEPT !.attrs = @ \ c.a]
      [] OTHER -> [w EXCEPT !.pad = PadPut(@, Cells(c.s, w.attrs))]

RECURSIVE RunCalls(_, _)
RunCalls(w, calls) ==
    IF calls = <<>> THEN w
    ELSE RunCalls(Curses(w, Head(calls)), Tail(calls))

\* the cells a sequence of calls writes, starting with attributes at
RECURSIVE Emitted(_, _)
Emitted(calls, at) ==
    IF calls = <<>> THEN <<>>
    ELSE LET c == Head(calls)
         IN  CASE c.f = "wattron" -> Emitted(Tail(calls), at \cup c.a)
               [] c.f = "wattroff" -> Emitted(Tail(calls), at \ c.a)
               [] OTHER -> Cells(c.s, at) \o Emitted(Tail(calls), at)


(***************************************************************************)
(* ui/window.c                                                             *)
(***************************************************************************)
COLOUR_TEXT == "COLOUR_TEXT"
COLOUR_TIME == "COLOUR_TIME"
COLOUR_THEM == "COLOUR_THEM"
COLOUR_ERROR == "COLOUR_ERROR"
COLOUR_ONLINE == "COLOUR_ONLINE"
COLOUR_AWAY == "COLOUR_AWAY"
COLOUR_CHAT == "COLOUR_CHAT"
COLOUR_DND == "COLOUR_DND"
COLOUR_XA == "COLOUR_XA"
COLOUR_OFFLINE == "COLOUR_OFFLINE"

WIN_CONSOLE == "WIN_CONSOLE"
WIN_CHAT == "WIN_CHAT"
WIN_MUC == "WIN_MUC"
WIN_PRIVATE == "WIN_PRIVATE"
WIN_DUCK == "WIN_DUCK"
\* a win_type_t value that is none of the enumerators
WIN_OTHER == "WIN_OTHER"
WinTypes == {WIN_CONSOLE, WIN_CHAT, WIN_MUC, WIN_PRIVATE, WIN_DUCK, WIN_OTHER}

FN_NULL == "NULL"
FN_default_handle_error_message == "_default_handle_error_message"
FN_muc_handle_error_message == "muc_handle_error_message"
FN_print_incoming_message == "_print_incoming_message"

NoWin == [alive |-> FALSE]

\* the switch of win_create: the behaviour table of a window type
HandleErrorMessageOf(type) ==
    CASE type = WIN_CONSOLE -> FN_default_handle_error_message
      [] type = WIN_CHAT -> FN_default_handle_error_message
      [] type = WIN_MUC -> FN_muc_handle_error_message
      [] type = WIN_PRIVATE -> FN_default_handle_error_message
      [] type = WIN_DUCK -> FN_default_handle_error_message
      [] OTHER -> FN_default_handle_error_message

\* the table with the WIN_MUC case copied from the WIN_CHAT case
PrintIncomingMessageOf_muc(type) ==
    CASE type = WIN_CONSOLE -> FN_NULL
      [] type = WIN_CHAT -> FN_print_incoming_message
      [] type = WIN_MUC -> FN_print_incoming_message
      [] type = WIN_PRIVATE -> FN_print_incoming_message
      [] type = WIN_DUCK -> FN_NULL
      [] OTHER -> FN_NULL

PrintIncomingMessageOf(type) ==
    CASE type = WIN_CONSOLE -> FN_NULL
      [] type = WIN_CHAT -> FN_print_incoming_message
      [] type = WIN_MUC -> FN_NULL
      [] type = WIN_PRIVATE -> FN_print_incoming_message
      [] type = WIN_DUCK -> FN_NULL
      [] OTHER -> FN_NULL

win_create(title, cols, type) ==
    [alive |-> TRUE,
     from |-> title,
     w |-> [pad |-> EmptyPad, cols |-> cols, attrs |-> {},
            bkgd |-> COLOUR_TEXT, scrollok |-> TRUE],
     y_pos |-> 0,
     paged |-> 0,
     unread |-> 0,
     history_shown |-> 0,
     type |-> type,
     handle_error_message |-> HandleErrorMessageOf(type),
     print_incoming_message |-> PrintIncomingMessageOf(type)]

\* _win_print_time: "HH:MM:SS c " of the local wall clock, in COLOUR_TIME
WinPrintTime(now, show_char) ==
    LET time == G_date_time_new_now_local(now)
        date_fmt == G_date_time_format(time)
    IN  << AttrOn({COLOUR_TIME}),
           Printw(date_fmt \o <<" ", show_char, " ">>),
           AttrOff({COLOUR_TIME}) >>

win_print_line(now, show_char, attrs, fmt_msg) ==
    WinPrintTime(now, show_char)
      \o << AttrOn(attrs), Printw(fmt_msg \o <<NL>>), AttrOff(attrs) >>

\* the attribute _win_presence_colour_on turns on
PresenceColourOnAttr(presence) ==
    IF G_StrCmp0Eq(presence, S_online) THEN COLOUR_ONLINE
    ELSE IF G_StrCmp0Eq(presence, S_away) THEN COLOUR_AWAY
    ELSE IF G_StrCmp0Eq(presence, S_chat) THEN COLOUR_CHAT
    ELSE IF G_StrCmp0Eq(presence, S_dnd) THEN COLOUR_DND
    ELSE IF G_StrCmp0Eq(presence, S_xa) THEN COLOUR_XA
    ELSE COLOUR_OFFLINE

\* the chain with the xa branch turning off the dnd colour
PresenceColourOffAttr_xa(presence) ==
    IF G_StrCmp0Eq(presence, S_online) THEN COLOUR_ONLINE
    ELSE IF G_StrCmp0Eq(presence, S_away) THEN COLOUR_AWAY
    ELSE IF G_StrCmp0Eq(presence, S_chat) THEN COLOUR_CHAT
    ELSE IF G_StrCmp0Eq(presence, S_dnd) THEN COLOUR_DND
    ELSE IF G_StrCmp0Eq(presence, S_xa) THEN COLOUR_DND
    ELSE COLOUR_OFFLINE

\* the attribute _win_presence_colour_off turns off
PresenceColourOffAttr(presence) ==
    IF G_StrCmp0Eq(presence, S_online) THEN COLOUR_ONLINE
    ELSE IF G_StrCmp0Eq(presence, S_away) THEN COLOUR_AWAY
    ELSE IF G_StrCmp0Eq(presence, S_chat) THEN COLOUR_CHAT
    ELSE IF G_StrCmp0Eq(presence, S_dnd) THEN COLOUR_DND
    ELSE IF G_StrCmp0Eq(presence, S_xa) THEN COLOUR_XA
    ELSE COLOUR_OFFLINE

\* the colour turned off being the offline colour whatever the presence
WinPresenceColourOff_offline(presence) == AttrOff({COLOUR_OFFLINE})

WinPresenceColourOn(presence) == AttrOn({PresenceColourOnAttr(presence)})
WinPresenceColourOff(presence) == AttrOff({PresenceColourOffAttr(presence)})

\* the idle time of _win_show_contact: hours, then minutes and seconds of
\* what each step leaves
IdleHours(span) == CDiv(span, G_TIME_SPAN_HOUR)

\* the minutes taken of the whole span, the hours not subtracted
IdleMinutes_total(span) == CDiv(span, G_TIME_SPAN_MINUTE)

IdleMinutes(span) == CDiv(span - IdleHours(span) * G_TIME_SPAN_HOUR, G_TIME_SPAN_MINUTE)
IdleSeconds(span) ==
    CDiv(span - IdleHours(span) * G_TIME_SPAN_HOUR - IdleMinutes(span) * G_TIME_SPAN_MINUTE,
         G_TIME_SPAN_SECOND)

IdleCalls(span) ==
    << Printw(<<",", " ", "i", "d", "l", "e", " ">>) >>
      \o (IF IdleHours(span) > 0
          THEN << Printw(Itoa(IdleHours(span)) \o <<"h">>) >> ELSE <<>>)
      \o << Printw(Itoa(IdleMinutes(span)) \o <<"m">>),
            Printw(Itoa(IdleSeconds(span)) \o <<"s">>) >>

\* a contact: barejid, name, presence and status are char* (name and status
\* may be NULL), last_activity is a GDateTime or NULL
WinShowContact(now, contact) ==
    WinPrintTime(now, "-")
      \o << WinPresenceColourOn(contact.presence) >>
      \o (IF ~contact.name.null
          THEN << Printw(contact.name.s) >> ELSE << Printw(contact.barejid.s) >>)
      \o << Printw(<<" ", "i", "s", " ">> \o contact.presence.s) >>
      \o (IF ~contact.last_activity.null
          THEN IdleCalls(G_date_time_difference(G_date_time_new_now_local(now),
                                                contact.last_activity.dt))
          ELSE <<>>)
      \o (IF ~contact.status.null
          THEN << Printw(<<",", " ", "\"">> \o contact.status.s \o <<"\"">>) >>
          ELSE <<>>)
      \o << Printw(<<NL>>), WinPresenceColourOff(contact.presence) >>

\* the time prefix of _print_incoming_message
IncomingTimeCalls(now, tv_stamp) ==
    IF tv_stamp.null
    THEN WinPrintTime(now, "-")
    ELSE LET time == G_date_time_new_from_timeval_utc(tv_stamp.tv)
             date_fmt == G_date_time_format(time)
         IN  << AttrOn({COLOUR_TIME}),
                Printw(date_fmt \o <<" ", "-", " ">>),
                AttrOff({COLOUR_TIME}) >>

\* the body with the action printed from the start of the message
IncomingBodyCalls_keeps_me(from, message) ==
    IF StrNCmpEq(message, S_me, 4)
    THEN << AttrOn({COLOUR_THEM}),
            Printw(<<"*">> \o from \o <<" ">>),
            Printw(message),
            Printw(<<NL>>),
            AttrOff({COLOUR_THEM}) >>
    ELSE << AttrOn({COLOUR_THEM}),
            Printw(from \o <<":", " ">>),
            AttrOff({COLOUR_THEM}),
            Printw(message),
            Printw(<<NL>>) >>

\* the sender and body of _print_incoming_message
IncomingBodyCalls(from, message) ==
    IF StrNCmpEq(message, S_me, 4)
    THEN << AttrOn({COLOUR_THEM}),
            Printw(<<"*">> \o from \o <<" ">>),
            Printw(SubSeq(message, 5, Len(message))),
            Printw(<<NL>>),
            AttrOff({COLOUR_THEM}) >>
    ELSE << AttrOn({COLOUR_THEM}),
            Printw(from \o <<":", " ">>),
            AttrOff({COLOUR_THEM}),
            Printw(message),
            Printw(<<NL>>) >>

PrintIncomingMessageCalls(now, tv_stamp, from, message) ==
    IncomingTimeCalls(now, tv_stamp) \o IncomingBodyCalls(from, message)

\* prefresh(pad, y_pos, 0, 1, 0, rows-3, cols-1): the pad's rows from y_pos
\* on, as many as screen rows 1 .. rows-3 hold
PRefresh(pad, y_pos, rows) ==
    [i \in 1..Min(rows - 3, PadSize - y_pos) |-> pad.rows[y_pos + i]]

(***************************************************************************)
(* tray.c.  Pointers are object ids, 0 being NULL; live and freed are the  *)
(* allocated objects (GStrings and the status icon) that are still held    *)
(* and that were released.  timers are the sources of the main loop.  ub   *)
(* collects the undefined behaviour that happened (after it the process    *)
(* may crash or go on), warn the calls glib rejects with a critical        *)
(* warning.  env is the build (ICONS_PATH defined or not) and the user's   *)
(* icon directory.                                                         *)
(***************************************************************************)
\* create_tray calls the model makes
MaxCreate == 2

TrayStart ==
    [prof_tray |-> 0, icon_filename |-> 0, icon_msg_filename |-> 0,
     unread_messages |-> 0, shutting_down |-> FALSE, timer |-> 0,
     live |-> {}, freed |-> {}, next |-> 1, timers |-> {}, nextTimer |-> 1,
     shown |-> "none", ub |-> {}, warn |-> {}, log |-> {}, crashed |-> FALSE,
     creates |-> 0]

\* g_string_free(p, true)
G_string_free(t, p) ==
    IF p = 0 THEN [t EXCEPT !.warn = @ \cup {"g_string_free_null"}]
    ELSE IF p \in t.live THEN [t EXCEPT !.live = @ \ {p}, !.freed = @ \cup {p}]
    ELSE [t EXCEPT !.ub = @ \cup {"double_free"}]

\* p->str
Deref(t, p) ==
    IF p = 0 THEN [t EXCEPT !.ub = @ \cup {"null_deref"}]
    ELSE IF p \in t.freed THEN [t EXCEPT !.ub = @ \cup {"use_after_free"}]
    ELSE t

\* a g_string_new stored in icon_filename or icon_msg_filename
NewIconFilename(t) ==
    [t EXCEPT !.icon_filename = t.next, !.live = @ \cup {t.next}, !.next = @ + 1]
NewIconMsgFilename(t) ==
    [t EXCEPT !.icon_msg_filename = t.next, !.live = @ \cup {t.next}, !.next = @ + 1]

\* _get_icons
GetIcons(t) ==
    LET t1 == IF env.icons_path THEN NewIconMsgFilename(NewIconFilename(t)) ELSE t
    IN  IF env.dir = "missing" THEN t1
        ELSE IF env.dir = "unopenable"
        THEN [t1 EXCEPT !.log = @ \cup {"Unable to open dir"},
                        !.warn = @ \cup {"g_dir_close_null"}]
        ELSE LET t2 == IF "proIcon.png" \in env.names
                       THEN NewIconFilename(G_string_free(t1, t1.icon_filename))
                       ELSE t1
             IN  IF "proIconMsg.png" \in env.names
                 THEN NewIconMsgFilename(G_string_free(t2, t2.icon_msg_filename))
                 ELSE t2

\* a handler that ran into undefined behaviour may have crashed the process
Outcome(t) ==
    /\ \E crash \in (IF t.ub # tray.ub THEN BOOLEAN ELSE {FALSE}) :
           tray' = [t EXCEPT !.crashed = crash]
    /\ UNCHANGED <<env, winvars>>

create_tray ==
    /\ ~tray.crashed
    /\ tray.creates < MaxCreate
    /\ LET t1 == Deref(GetIcons(tray), GetIcons(tray).icon_filename)
           t2 == [t1 EXCEPT !.prof_tray = t1.next, !.live = @ \cup {t1.next},
                            !.next = @ + 1, !.shown = "icon",
                            !.shutting_down = FALSE,
                            !.timer = t1.nextTimer, !.timers = @ \cup {t1.nextTimer},
                            !.nextTimer = @ + 1, !.creates = @ + 1]
       IN  /\ Outcome(t2)
           /\ tlast' = [op |-> "create_tray", queried |-> FALSE, cancelled |-> FALSE,
                        shutting_down |-> tray.shutting_down]

\* gtk_status_icon_set_from_file(prof_tray, p->str)
SetFromFile(t, p, shown) ==
    LET t1 == Deref(t, p)
    IN  IF t1.prof_tray = 0 THEN [t1 EXCEPT !.warn = @ \cup {"gtk_status_icon_null"}]
        ELSE [t1 EXCEPT !.shown = shown]

\* _tray_change_icon, called by the main loop for a source that is still
\* installed; returning false removes the source
TrayChangeIcon(id, unread) ==
    /\ ~tray.crashed
    /\ id \in tray.timers
    /\ IF tray.shutting_down
       THEN /\ Outcome([tray EXCEPT !.timers = @ \ {id}])
            /\ tlast' = [op |-> "_tray_change_icon", queried |-> FALSE, cancelled |-> TRUE,
                         shutting_down |-> TRUE]
       ELSE /\ LET t1 == [tray EXCEPT !.unread_messages = unread]
               IN  Outcome(IF unread # 0
                           THEN SetFromFile(t1, t1.icon_msg_filename, "msg")
                           ELSE SetFromFile(t1, t1.icon_filename, "icon"))
            /\ tlast' = [op |-> "_tray_change_icon", queried |-> TRUE, cancelled |-> FALSE,
                         shutting_down |-> FALSE]

\* g_source_remove(timer)
G_source_remove(t, id) ==
    IF id \in t.timers THEN [t EXCEPT !.timers = @ \ {id}]
    ELSE [t EXCEPT !.warn = @ \cup {"g_source_remove_invalid"}]

destroy_tray ==
    /\ ~tray.crashed
    /\ LET t1 == G_source_remove([tray EXCEPT !.shutting_down = TRUE], tray.timer)
           t2 == IF t1.prof_tray # 0
                 THEN [t1 EXCEPT !.live = @ \ {t1.prof_tray},
                                 !.freed = @ \cup {t1.prof_tray},
                                 !.prof_tray = 0, !.shown = "none"]
                 ELSE t1
           t3 == G_string_free(G_string_free(t2, t2.icon_filename), t2.icon_msg_filename)
       IN  /\ Outcome(t3)
           /\ tlast' = [op |-> "destroy_tray", queried |-> FALSE, cancelled |-> FALSE,
                        shutting_down |-> tray.shutting_down]

IconNames == {"proIcon.png", "proIconMsg.png", "README"}

Envs ==
    [icons_path : BOOLEAN, dir : {"missing", "unopenable"}, names : {{}}]
      \cup [icons_path : BOOLEAN, dir : {"open"}, names : SUBSET IconNames]

(***************************************************************************)
(* The window operations.  last records the operation that ran last: its   *)
(* name, its arguments, the curses calls it made, what it returned and the *)
(* window it was called on.                                                *)
(***************************************************************************)
Op(op, arg, calls, ret) == [op |-> op, arg |-> arg, calls |-> calls, ret |-> ret, pre |-> win]

\* the row the cursor is on; the model makes a stand-alone print_time call
\* only at the start of a row
CursorRow(window) == window.w.pad.rows[window.w.pad.cy]

Write(calls) == win' = [win EXCEPT !.w = RunCalls(@, calls)]

Create(title, cols, type) ==
    /\ ~win.alive
    /\ win' = win_create(title, cols, type)
    /\ last' = Op("win_create", [title |-> title, cols |-> cols, type |-> type], <<>>, FALSE)
    /\ UNCHANGED <<tz, trayvars>>

\* win_free: the pad, the title and the window are released
Free ==
    /\ win.alive
    /\ win' = NoWin
    /\ last' = Op("win_free", [none |-> TRUE], <<>>, FALSE)
    /\ UNCHANGED <<tz, trayvars>>

PrintTime(now, show_char) ==
    /\ win.alive
    /\ CursorRow(win) = <<>>
    /\ LET calls == WinPrintTime(now, show_char)
       IN  /\ Write(calls)
           /\ last' = Op("print_time", [now |-> now, show_char |-> show_char], calls, FALSE)
    /\ UNCHANGED <<tz, trayvars>>

PrintLine(now, show_char, attrs, msg) ==
    /\ win.alive
    /\ LET calls == win_print_line(now, show_char, attrs, msg)
       IN  /\ Write(calls)
           /\ last' = Op("print_line",
                         [now |-> now, show_char |-> show_char, attrs |-> attrs, msg |-> msg],
                         calls, FALSE)
    /\ UNCHANGED <<tz, trayvars>>

\* a refresh that marks the window read
Refresh_reads(rows) ==
    /\ win.alive
    /\ win' = [win EXCEPT !.unread = 0]
    /\ last' = [Op("refresh", [rows |-> rows], <<>>, FALSE)
                  EXCEPT !.ret = PRefresh(win.w.pad, win.y_pos, rows)]
    /\ UNCHANGED <<tz, trayvars>>

\* win_refresh: getmaxyx gives the screen's rows; the pad is copied to the
\* screen and the window is only read
Refresh(rows) ==
    /\ win.alive
    /\ win' = win
    /\ last' = [Op("refresh", [rows |-> rows], <<>>, FALSE)
                  EXCEPT !.ret = PRefresh(win.w.pad, win.y_pos, rows)]
    /\ UNCHANGED <<tz, trayvars>>

ShowContact(now, contact) ==
    /\ win.alive
    /\ LET calls == WinShowContact(now, contact)
       IN  /\ Write(calls)
           /\ last' = Op("show_contact", [now |-> now, contact |-> contact], calls, FALSE)
    /\ UNCHANGED <<tz, trayvars>>

\* a default handler that reports the error handled
DefaultHandleErrorMessage_handled(from, err_msg) ==
    /\ win' = win
    /\ last' = Op("handle_error_message", [from |-> from, err_msg |-> err_msg], <<>>, TRUE)

\* _default_handle_error_message
DefaultHandleErrorMessage(from, err_msg) ==
    /\ win' = win
    /\ last' = Op("handle_error_message", [from |-> from, err_msg |-> err_msg], <<>>, FALSE)

\* muc_handle_error_message (ui/muc_window.c): it may show the error in the
\* room's window and report it handled
MucHandleErrorMessage(now, from, err_msg) ==
    \E handled \in BOOLEAN :
        LET calls == IF handled
                     THEN win_print_line(now, "!", {COLOUR_ERROR}, err_msg)
                     ELSE <<>>
        IN  /\ Write(calls)
            /\ last' = Op("handle_error_message", [from |-> from, err_msg |-> err_msg],
                          calls, handled)

\* window->handle_error_message(window, from, err_msg)
HandleErrorMessage(now, from, err_msg) ==
    /\ win.alive
    /\ IF win.handle_error_message = FN_muc_handle_error_message
       THEN MucHandleErrorMessage(now, from, err_msg)
       ELSE DefaultHandleErrorMessage(from, err_msg)
    /\ UNCHANGED <<tz, trayvars>>

\* window->print_incoming_message(window, tv_stamp, from, message), which
\* callers make only on a window that has the entry
PrintIncomingMessage(now, tv_stamp, from, message) ==
    /\ win.alive
    /\ win.print_incoming_message # FN_NULL
    /\ LET calls == PrintIncomingMessageCalls(now, tv_stamp, from, message)
       IN  /\ Write(calls)
           /\ last' = Op("print_incoming_message",
                         [now |-> now, tv_stamp |-> tv_stamp, from |-> from,
                          message |-> message],
                         calls, FALSE)
    /\ UNCHANGED <<tz, trayvars>>

\* the registry and the UI loop page a window and count its unread messages
UiSetView(view) ==
    /\ win.alive
    /\ win' = [win EXCEPT !.y_pos = view.y_pos, !.paged = view.paged,
                          !.unread = view.unread, !.history_shown = view.history_shown]
    /\ last' = Op("ui", view, <<>>, FALSE)
    /\ UNCHANGED <<tz, trayvars>>

(***************************************************************************)
(* Inputs                                                                  *)
(***************************************************************************)
Day == SecondsPerDay * G_TIME_SPAN_SECOND
\* 12:34:56 and a half second, and 23:59:59, UTC
T_noon == Day + ((12 * 60 + 34) * 60 + 56) * G_TIME_SPAN_SECOND + 1
T_late == Day + ((23 * 60 + 59) * 60 + 59) * G_TIME_SPAN_SECOND
\* 00:00:01 UTC
T_early == Day + G_TIME_SPAN_SECOND

TzOffsets == {0 - 3600, 0, 3600}

Stamp(tv) == [null |-> FALSE, tv |-> tv]
NoStamp == [null |-> TRUE, tv |-> 0]

LastActivity(now, span) == [null |-> FALSE, dt |-> [t |-> now - span, off |-> tz]]
NoActivity == [null |-> TRUE, dt |-> [t |-> 0, off |-> 0]]

Contact(barejid, name, presence, status, last_activity) ==
    [barejid |-> barejid, name |-> name, presence |-> presence, status |-> status,
     last_activity |-> last_activity]

S_jid == <<"b", "@", "x">>
S_name == <<"B", "o">>
S_status == <<"z">>
S_from == <<"a", "l">>
S_hi == <<"h", "i">>

PresenceStrings == {S_online, S_away, S_chat, S_dnd, S_xa, S_offline, S_bogus}

AllContacts(now) ==
    {Contact(Str(S_jid), Str(S_name), Str(S_online), NULL, NoActivity),
     Contact(Str(S_jid), NULL, Str(S_away), Str(S_status), LastActivity(now, 59 * G_TIME_SPAN_SECOND)),
     Contact(Str(S_jid), Str(S_name), Str(S_chat), NULL, LastActivity(now, 3600 * G_TIME_SPAN_SECOND)),
     Contact(Str(S_jid), NULL, Str(S_dnd), Str(S_status), LastActivity(now, 3661 * G_TIME_SPAN_SECOND + 1)),
     Contact(Str(S_jid), Str(S_name), Str(S_xa), NULL, LastActivity(now, 0)),
     Contact(Str(S_jid), Str(S_name), Str(S_offline), Str(S_status), LastActivity(now, 90061 * G_TIME_SPAN_SECOND)),
     Contact(Str(S_jid), NULL, Str(S_bogus), NULL, LastActivity(now, 60 * G_TIME_SPAN_SECOND)),
     Contact(Str(S_jid), NULL, Str(S_online), Str(S_status), NoActivity)}

AllMessages ==
    {<<>>, S_hi, <<"/", "m", "e">>, S_me, S_me \o S_hi, <<" ">> \o S_me \o S_hi,
     <<"/", "m", "e", "x">>, <<"h", NL, "i">>}

Views ==
    {[y_pos |-> 0, paged |-> 0, unread |-> 0, history_shown |-> 0],
     [y_pos |-> 1, paged |-> 1, unread |-> 2, history_shown |-> 1]}

WinInit(Offsets) ==
    /\ win = NoWin
    /\ last = [op |-> "none", arg |-> [none |-> TRUE], calls |-> <<>>, ret |-> FALSE, pre |-> NoWin]
    /\ tz \in Offsets

\* the tray is not used
TrayIdle ==
    /\ tray = TrayStart
    /\ env = [icons_path |-> TRUE, dir |-> "missing", names |-> {}]
    /\ tlast = [op |-> "none", queried |-> FALSE, cancelled |-> FALSE, shutting_down |-> FALSE]

(***************************************************************************)
(* Spec: every window type and every operation, under every UTC offset.    *)
(***************************************************************************)
Init == WinInit(TzOffsets) /\ TrayIdle

Next ==
    \/ \E type \in WinTypes : Create(S_from, 80, type)
    \/ Free
    \/ PrintTime(T_noon, "-")
    \/ PrintLine(T_noon, "!", {COLOUR_ERROR}, S_hi)
    \/ \E rows \in {4, 5} : Refresh(rows)
    \/ \E contact \in {c \in AllContacts(T_noon) : c.presence.s = S_away} :
           ShowContact(T_noon, contact)
    \/ HandleErrorMessage(T_noon, S_from, S_hi)
    \/ \E tv_stamp \in {NoStamp, Stamp(T_late)} :
           PrintIncomingMessage(T_noon, tv_stamp, S_from, S_hi)
    \/ \E view \in Views : UiSetView(view)

Spec == Init /\ [][Next]_vars

(***************************************************************************)
(* SpecContact: show_contact on every kind of contact.                     *)
(***************************************************************************)
InitContact == WinInit({3600}) /\ TrayIdle

NextContact ==
    \/ \E type \in {WIN_CONSOLE, WIN_CHAT} : Create(S_from, 80, type)
    \/ Free
    \/ PrintTime(T_late, "-")
    \/ PrintLine(T_late, "!", {COLOUR_ERROR}, S_hi)
    \/ \E rows \in {4, 5} : Refresh(rows)
    \/ \E contact \in AllContacts(T_late) : ShowContact(T_late, contact)
    \/ HandleErrorMessage(T_late, S_from, S_hi)
    \/ PrintIncomingMessage(T_late, NoStamp, S_from, S_hi)
    \/ \E view \in Views : UiSetView(view)

SpecContact == InitContact /\ [][NextContact]_vars

(***************************************************************************)
(* SpecMessage: print_incoming_message on every kind of message.           *)
(***************************************************************************)
InitMessage == WinInit({0 - 3600}) /\ TrayIdle

NextMessage ==
    \/ \E type \in {WIN_CHAT, WIN_PRIVATE} : Create(S_from, 80, type)
    \/ Free
    \/ PrintTime(T_early, "-")
    \/ PrintLine(T_early, "!", {COLOUR_ERROR}, S_hi)
    \/ \E rows \in {4, 5} : Refresh(rows)
    \/ \E contact \in {c \in AllContacts(T_early) : c.presence.s = S_xa} :
           ShowContact(T_early, contact)
    \/ HandleErrorMessage(T_early, S_from, S_hi)
    \/ \E message \in AllMessages :
           PrintIncomingMessage(T_early, Stamp(T_noon), S_from, message)
    \/ \E view \in Views : UiSetView(view)

SpecMessage == InitMessage /\ [][NextMessage]_vars

(***************************************************************************)
(* SpecTray: the tray notifier under every build and icon directory.       *)
(***************************************************************************)
InitTray ==
    /\ WinInit({0})
    /\ tray = TrayStart
    /\ env \in Envs
    /\ tlast = [op |-> "none", queried |-> FALSE, cancelled |-> FALSE, shutting_down |-> FALSE]

NextTray ==
    \/ create_tray
    \/ \E id \in tray.timers : \E unread \in {0, 1, 2} : TrayChangeIcon(id, unread)
    \/ destroy_tray

SpecTray == InitTray /\ [][NextTray]_vars

(***************************************************************************)
(* What the operations are to do, stated without the code's operators.     *)
(***************************************************************************)
Text(cells) == [i \in 1..Len(cells) |-> cells[i].ch]
AllIn(cells, at) == \A i \in 1..Len(cells) : cells[i].at = at
Count(s, ch) == Cardinality({i \in 1..Len(s) : s[i] = ch})

\* HH:MM:SS of a second of the day
Clock(sod) ==
    TwoDigits(sod \div 3600) \o <<":">> \o TwoDigits((sod \div 60) % 60) \o <<":">>
      \o TwoDigits(sod % 60)

\* the local second of the day of an instant
LocalSecond(t) == ((t \div G_TIME_SPAN_SECOND) + tz) % SecondsPerDay

\* "HH:MM:SS - ", the prefix of a line, has this many characters
PrefixLength == 11

\* the cells the last operation wrote
Out == Emitted(last.calls, last.pre.w.attrs)
AfterPrefix == SubSeq(Out, PrefixLength + 1, Len(Out))

\* the row a line written at the cursor of the window before ends up in
RowOfLine == IF last.pre.w.pad.cy = PadSize THEN PadSize - 1 ELSE last.pre.w.pad.cy

PresenceAttr(p) ==
    CASE ~p.null /\ p.s = <<"o", "n", "l", "i", "n", "e">> -> COLOUR_ONLINE
      [] ~p.null /\ p.s = <<"a", "w", "a", "y">> -> COLOUR_AWAY
      [] ~p.null /\ p.s = <<"c", "h", "a", "t">> -> COLOUR_CHAT
      [] ~p.null /\ p.s = <<"d", "n", "d">> -> COLOUR_DND
      [] ~p.null /\ p.s = <<"x", "a">> -> COLOUR_XA
      [] OTHER -> COLOUR_OFFLINE

\* every presence the colour operations may be given
PresenceInputs == {NULL, Str(<<>>)} \cup {Str(s) : s \in PresenceStrings}

\* C1: a window has the print_incoming_message entry exactly if its type is
\* WIN_CHAT or WIN_PRIVATE, and no operation on a window changes its type or
\* its two entries
C1_IncomingOnlyForChatAndPrivate ==
    win.alive =>
        /\ win.print_incoming_message # FN_NULL <=> win.type \in {WIN_CHAT, WIN_PRIVATE}
        /\ win.handle_error_message # FN_NULL
        /\ last.op = "win_create" => win.type = last.arg.type
        /\ last.op # "win_create" =>
               /\ win.type = last.pre.type
               /\ win.print_incoming_message = last.pre.print_incoming_message
               /\ win.handle_error_message = last.pre.handle_error_message

C1_Witness ==
    /\ win.alive
    /\ win.type = WIN_PRIVATE
    /\ last.op = "print_incoming_message"
    /\ win.print_incoming_message = FN_print_incoming_message

\* C2: on a window that is not a WIN_MUC window handle_error_message returns
\* FALSE, makes no curses call and leaves the whole window as it was
C2_DefaultHandlerDoesNothing ==
    (last.op = "handle_error_message" /\ last.pre.type # WIN_MUC) =>
        /\ last.ret = FALSE
        /\ last.calls = <<>>
        /\ win = last.pre

C2_Witness ==
    /\ last.op = "handle_error_message"
    /\ win.type = WIN_CHAT
    /\ win.w.pad # EmptyPad
    /\ win.y_pos = 1
    /\ win.unread = 2
    /\ last.ret = FALSE

\* C3: for every presence the attribute turned on is the attribute turned
\* off: the one of online, away, chat, dnd or xa, and the offline attribute
\* for anything else; show_contact turns on and off that attribute
C3_SameAttributeOnAndOff ==
    /\ \A p \in PresenceInputs :
           /\ PresenceColourOnAttr(p) = PresenceAttr(p)
           /\ PresenceColourOffAttr(p) = PresenceAttr(p)
           /\ WinPresenceColourOn(p).a = WinPresenceColourOff(p).a
    /\ last.op = "show_contact" =>
           LET on == {i \in 4..Len(last.calls) : last.calls[i].f = "wattron"}
               off == {i \in 4..Len(last.calls) : last.calls[i].f = "wattroff"}
           IN  \A i \in on : \A j \in off :
                   /\ last.calls[i].a = last.calls[j].a
                   /\ last.calls[i].a = {PresenceAttr(last.arg.contact.presence)}

C3_Witness ==
    /\ last.op = "show_contact"
    /\ last.arg.contact.presence = Str(S_bogus)
    /\ \E i \in 1..Len(last.calls) : last.calls[i] = AttrOff({COLOUR_OFFLINE})

\* whether a message is an action: it starts with "/me "
IsAction(message) ==
    /\ Len(message) >= 4
    /\ message[1] = "/"
    /\ message[2] = "m"
    /\ message[3] = "e"
    /\ message[4] = " "

\* the line print_incoming_message is to write after the time prefix
IncomingLine(from, message) ==
    IF IsAction(message)
    THEN Cells(<<"*">> \o from \o <<" ">> \o SubSeq(message, 5, Len(message)) \o <<NL>>,
               {COLOUR_THEM})
    ELSE Cells(from \o <<":", " ">>, {COLOUR_THEM}) \o Cells(message \o <<NL>>, {})

\* C4 (as amended): after the time prefix print_incoming_message writes
\* "*<from> <rest>" and a newline in the 'them' attribute for a message that
\* starts with "/me ", and otherwise "<from>: " in the 'them' attribute and the
\* message and a newline in no attribute; that is one line, stored in the row
\* of the cursor, when the sender and the message hold no newline
C4_IncomingLineWritten ==
    last.op = "print_incoming_message" =>
        LET from == last.arg.from
            message == last.arg.message
        IN  /\ AfterPrefix = IncomingLine(from, message)
            /\ Count(Text(AfterPrefix), NL) = 1 + Count(from \o message, NL)
            /\ Count(from \o message, NL) = 0 =>
                   win.w.pad.rows[RowOfLine] =
                       CursorRow(last.pre) \o SubSeq(Out, 1, Len(Out) - 1)
            /\ win.w.attrs = last.pre.w.attrs

C4_Witness ==
    /\ last.op = "print_incoming_message"
    /\ last.arg.message = S_me \o S_hi
    /\ Text(AfterPrefix) = <<"*", "a", "l", " ", "h", "i", NL>>
    /\ CursorRow(last.pre) # <<>>

\* C4 as it was claimed: for every message exactly one line is written
C4_ExactlyOneLine ==
    last.op = "print_incoming_message" =>
        /\ AfterPrefix = IncomingLine(last.arg.from, last.arg.message)
        /\ Count(Text(AfterPrefix), NL) = 1

\* the idle time as it is to be shown: hours if any, minutes and seconds
IdleText(seconds) ==
    LET h == seconds \div 3600
        m == (seconds % 3600) \div 60
        s == seconds % 60
    IN  (IF h > 0 THEN Itoa(h) \o <<"h">> ELSE <<>>) \o Itoa(m) \o <<"m">>
          \o Itoa(s) \o <<"s">>

\* what show_contact is to write after the time prefix
ContactText(now, contact) ==
    (IF contact.name.null THEN contact.barejid.s ELSE contact.name.s)
      \o <<" ", "i", "s", " ">> \o contact.presence.s
      \o (IF contact.last_activity.null THEN <<>>
          ELSE <<",", " ", "i", "d", "l", "e", " ">>
                 \o IdleText((now - contact.last_activity.dt.t) \div G_TIME_SPAN_SECOND))
      \o (IF contact.status.null THEN <<>>
          ELSE <<",", " ", "\"">> \o contact.status.s \o <<"\"">>)
      \o <<NL>>

\* C5: the idle time d of a contact is shown as hours, minutes and seconds
\* with h*3600 + m*60 + s the whole seconds of d, m and s below 60, the hours
\* only when there are any: 3661s is 1h1m1s, 59s is 0m59s, 3600s is 1h0m0s
C5_IdleDecomposition ==
    (last.op = "show_contact" /\ ~last.arg.contact.last_activity.null) =>
        LET span == last.arg.now - last.arg.contact.last_activity.dt.t
            d == span \div G_TIME_SPAN_SECOND
            h == IdleHours(span)
            m == IdleMinutes(span)
            s == IdleSeconds(span)
            shown == (IF h > 0 THEN Itoa(h) \o <<"h">> ELSE <<>>)
                       \o Itoa(m) \o <<"m">> \o Itoa(s) \o <<"s">>
        IN  /\ h * 3600 + m * 60 + s = d
            /\ h >= 0 /\ m \in 0..59 /\ s \in 0..59
            /\ shown = IdleText(d)
            /\ Text(AfterPrefix) = ContactText(last.arg.now, last.arg.contact)
            /\ d = 3661 => shown = <<"1", "h", "1", "m", "1", "s">>
            /\ d = 59 => shown = <<"0", "m", "5", "9", "s">>
            /\ d = 3600 => shown = <<"1", "h", "0", "m", "0", "s">>

C5_Witness ==
    /\ last.op = "show_contact"
    /\ ~last.arg.contact.last_activity.null
    /\ last.arg.now - last.arg.contact.last_activity.dt.t = 3661 * G_TIME_SPAN_SECOND + 1
    /\ Text(AfterPrefix) = <<"b", "@", "x", " ", "i", "s", " ", "d", "n", "d", ",", " ",
                             "i", "d", "l", "e", " ", "1", "h", "1", "m", "1", "s",
                             ",", " ", "\"", "z", "\"", NL>>

\* C6: the time print_incoming_message shows for a message with a timestamp
\* is the local time of the timestamp, and the local time of the call for a
\* message without one, in the time attribute and followed by " - "
C6_StampShownInLocalTime ==
    last.op = "print_incoming_message" =>
        LET prefix == SubSeq(Out, 1, PrefixLength)
            shown == IF last.arg.tv_stamp.null THEN last.arg.now
                     ELSE last.arg.tv_stamp.tv
        IN  /\ Text(prefix) = Clock(LocalSecond(shown)) \o <<" ", "-", " ">>
            /\ AllIn(prefix, {COLOUR_TIME})

\* C7: refresh leaves the window as it was and shows the rows of the pad
\* from y_pos on, and a second refresh of the same screen shows the same
C7_RefreshOnlyReads ==
    /\ [](last.op = "refresh" =>
            /\ win = last.pre
            /\ last.calls = <<>>
            /\ Len(last.ret) <= last.arg.rows - 3
            /\ \A i \in 1..Len(last.ret) : last.ret[i] = win.w.pad.rows[win.y_pos + i])
    /\ [][(last.op = "refresh" /\ last'.op = "refresh" /\ last'.arg = last.arg)
             => (last'.ret = last.ret /\ win' = win)]_vars

C7_Witness ==
    /\ last.op = "refresh"
    /\ win.y_pos = 1
    /\ last.arg.rows = 5
    /\ Len(last.ret) = 1
    /\ win.w.pad.rows[1] # <<>>
    /\ win.unread = 2

\* C10: show_contact writes the time prefix in the time attribute, turns the
\* attribute of the contact's presence on once, writes the contact, its
\* presence, idle time and status and the newline in it, turns that
\* attribute off once, and leaves the attributes of the window as they were
C10_PresenceColourBrackets ==
    last.op = "show_contact" =>
        LET calls == last.calls
            n == Len(calls)
            at == {PresenceAttr(last.arg.contact.presence)}
        IN  /\ AllIn(SubSeq(Out, 1, PrefixLength), last.pre.w.attrs \cup {COLOUR_TIME})
            /\ Text(SubSeq(Out, 1, PrefixLength)) =
                   Clock(LocalSecond(last.arg.now)) \o <<" ", "-", " ">>
            /\ calls[4] = AttrOn(at)
            /\ calls[n] = AttrOff(at)
            /\ \A i \in 5..(n - 1) : calls[i].f = "wprintw"
            /\ calls[n - 1] = Printw(<<NL>>)
            /\ AllIn(AfterPrefix, last.pre.w.attrs \cup at)
            /\ Text(AfterPrefix) = ContactText(last.arg.now, last.arg.contact)
            /\ win.w.attrs = last.pre.w.attrs
            /\ win.w = RunCalls(last.pre.w, calls)

C10_Witness ==
    /\ last.op = "show_contact"
    /\ last.arg.contact.name.null
    /\ ~last.arg.contact.status.null
    /\ ~last.arg.contact.last_activity.null
    /\ last.calls[4] = AttrOn({COLOUR_AWAY})
    /\ win.w.attrs = {}
    /\ CursorRow(last.pre) # <<>>

\* C8: a tick after destroy_tray does nothing but remove itself, and nothing
\* is released twice or used after its release
C8_ReleasedOnceAndNoTickAfterDestroy ==
    /\ (tlast.op = "_tray_change_icon" /\ tlast.shutting_down) =>
           (~tlast.queried /\ tlast.cancelled)
    /\ "double_free" \notin tray.ub
    /\ "use_after_free" \notin tray.ub

\* C9: a missing or unreadable icon directory, a missing icon and a build
\* without ICONS_PATH are never fatal: no unset icon filename is
\* dereferenced and no directory that was not opened is closed
C9_AcquisitionFailureNotFatal ==
    /\ ~tray.crashed
    /\ "null_deref" \notin tray.ub
    /\ "g_dir_close_null" \notin tray.warn

==========================================================================
